---- MODULE Spec2Model ----
(***************************************************************************)
(* Verification model of the scanner character-device drivers.             *)
(*                                                                         *)
(*   NewScanner.c : one device-wide buffer (scanner_device.data), one      *)
(*                  ScannerFile per open file holding a raw pointer        *)
(*                  (current_token) into that buffer and its own           *)
(*                  separator string.  No locking.                         *)
(*   Scanner.c    : one ScannerDevice per open file (own buffer, own       *)
(*                  position, separators " "), guarded by dev->lock.       *)
(*                                                                         *)
(* Kernel memory is modelled by addresses: a pointer is an integer, NULL   *)
(* is 0, kmalloc returns one of KmallocAddrs.  Only the block that         *)
(* scanner_device.data points to is live; every other heap address holds   *)
(* an indeterminate byte (GARB) whose classification a read resolves       *)
(* nondeterministically.                                                   *)
(***************************************************************************)
EXTENDS Integers, Sequences, FiniteSets, TLC

VARIABLES
    scanner_device,  \* NewScanner.c: [separators, data]       (static ScannerDevice)
    kmem,            \* NewScanner.c: bytes of the block scanner_device.data points to
    files,           \* NewScanner.c: handle -> ScannerFile (filp->private_data)
    wst,             \* NewScanner.c: handle -> where its scanner_write stands (SpecConc)
    devs,            \* Scanner.c: handle -> ScannerDevice (filp->private_data)
    lastOp,          \* the call that has just returned and what it returned, or Idle
    got              \* the tokens the session's handle has read since its write

vars == <<scanner_device, kmem, files, wst, devs, lastOp, got>>

---------------------------------------------------------------------------
(* Bounds and inputs *)

\* longest payload a write is given
MaxLen == 3

Handles == {"H1", "H2"}

NUL == "NUL"
GARB == "GARB"            \* an indeterminate byte (freed or uninitialised memory)
PayloadBytes == {"SP", "a"}

RECURSIVE SeqsUpTo(_, _)
SeqsUpTo(S, n) ==
    IF n = 0 THEN {<<>>}
    ELSE LET shorter == SeqsUpTo(S, n - 1)
         IN  shorter \cup {Append(s, b) : s \in {t \in shorter : Len(t) = n - 1}, b \in S}

\* what user space hands to write(): every NUL-free payload, and one with a NUL in it
Payloads == SeqsUpTo(PayloadBytes, MaxLen) \cup {<<"a", NUL, "a">>}

ReadBufSize == 1024
\* the count argument of read(): short ones, and TestScanner's sizeof(read_buf) - 1
Counts == {1, ReadBufSize - 1}

Min(a, b) == IF a < b THEN a ELSE b

---------------------------------------------------------------------------
(* Kernel memory *)

NULL == 0
SlotSize == MaxLen + 1
KmallocAddrs == {1, 1 + SlotSize}

\* strlen(): bytes before the first NUL of a terminated block
RECURSIVE StrlenFrom(_, _)
StrlenFrom(s, i) ==
    IF i > Len(s) \/ s[i] = NUL THEN i - 1 ELSE StrlenFrom(s, i + 1)

Strlen(s) == StrlenFrom(s, 1)

\* strchr(s, c) != NULL: c occurs in the C string s; the terminator itself matches NUL
Strchr(s, c) == \E i \in 1..(Strlen(s) + 1) : i <= Len(s) /\ s[i] = c

\* The byte at address a, given the live data block
MemAt(a, data, bytes) ==
    IF data # NULL /\ a >= data /\ a < data + Len(bytes)
    THEN bytes[a - data + 1]
    ELSE GARB

DefaultSeparators == <<"SP", "HT", "LF", "CR", "FF", "VT", NUL>>

---------------------------------------------------------------------------
(* NewScanner.c *)

ClosedFile == [open |-> FALSE, current_token |-> NULL, separators |-> <<>>]

\* What a call returned.  err is "none" and n the non-negative return value, or err
\* names the error.  count is the count argument of a read and the arg of an
\* ioctl (the user pointer, which the driver also takes for the length).  io is what crossed
\* the user/kernel boundary: the bytes a read stored in the user's buffer, the
\* payload a successful write copied in, the separator string an ioctl was given.
\* bad: the call dereferenced NULL, freed or uninitialised memory.
Ret(op, h, count, err, n, io, bad) ==
    [op |-> op, h |-> h, count |-> count, err |-> err, n |-> n, io |-> io, bad |-> bad]

\* no call is in progress: the last one has handed its result to its caller
Idle == Ret("idle", "none", 0, "none", 0, <<>>, FALSE)

\* char *data_end = scanner_device.data + strlen(scanner_device.data): where strlen
\* stops.  In a block that is not (yet) terminated it runs into indeterminate
\* bytes and may stop at any of them
DataEnds(data, bytes) ==
    IF \E i \in 1..Len(bytes) : bytes[i] = NUL /\ \A j \in 1..(i - 1) : bytes[j] # GARB
    THEN {data + Strlen(bytes)}
    ELSE {data + k : k \in
            ((CHOOSE i \in 1..(Len(bytes) + 1) :
                 /\ (i = Len(bytes) + 1 \/ bytes[i] = GARB)
                 /\ \A j \in 1..(i - 1) : bytes[j] # GARB) - 1) .. (2 * SlotSize - data)}

\* strchr(scanner_file->separators, *p): for an indeterminate byte, G says which way
IsSepAt(p, data, bytes, seps, G) ==
    LET c == MemAt(p, data, bytes)
    IN  IF c = GARB THEN p \in G ELSE Strchr(seps, c)

\* an if where the while belongs: at most one leading separator is skipped
SkipSeparators_one(p, data_end, data, bytes, seps, G) ==
    IF p < data_end /\ IsSepAt(p, data, bytes, seps, G) THEN p + 1 ELSE p

\* while (token_start < data_end && strchr(separators, *token_start)) token_start++;
RECURSIVE SkipSeparators(_, _, _, _, _, _)
SkipSeparators(p, data_end, data, bytes, seps, G) ==
    IF p < data_end /\ IsSepAt(p, data, bytes, seps, G)
    THEN SkipSeparators(p + 1, data_end, data, bytes, seps, G)
    ELSE p

\* an if where the while belongs: the token ends after one byte
ScanToken_one(p, data_end, data, bytes, seps, G) ==
    IF p < data_end /\ ~IsSepAt(p, data, bytes, seps, G) THEN p + 1 ELSE p

\* while (token_end < data_end && !strchr(separators, *token_end)) token_end++;
RECURSIVE ScanToken(_, _, _, _, _, _)
ScanToken(p, data_end, data, bytes, seps, G) ==
    IF p < data_end /\ ~IsSepAt(p, data, bytes, seps, G)
    THEN ScanToken(p + 1, data_end, data, bytes, seps, G)
    ELSE p

\* the addresses from p up to data_end that hold indeterminate bytes
Indeterminate(p, data_end, data, bytes) ==
    {a \in p..(data_end - 1) : MemAt(a, data, bytes) = GARB}

\* a length that keeps one byte of the count for a terminator
TokenLen_short(token_start, token_end, count) == Min(token_end - token_start, count - 1)

\* token_len = min((int)(token_end - token_start), (int)count)
TokenLen(token_start, token_end, count) == Min(token_end - token_start, count)

\* a cursor left at the start of the token just returned
ReadCursor_stuck(token_start, token_end, token_len) == token_start

\* a cursor put behind the separator that ended the token
ReadCursor_past(token_start, token_end, token_len) == token_end + 1

\* scanner_file->current_token = token_end
ReadCursor(token_start, token_end, token_len) == token_end

\* the cursor a read leaves behind when copy_to_user fails: the update is not reached
FaultCursor(cur, token_end) == cur

\* scanner_read from the return-0 test on, as a function of what it reads: the
\* record [err, n, io, cur, bad].  fault: copy_to_user cannot store; G: see IsSepAt
ReadOutcome(data, data_end, bytes, cur, seps, count, fault, G) ==
    LET token_start == SkipSeparators(cur, data_end, data, bytes, seps, G)
        token_end == ScanToken(token_start, data_end, data, bytes, seps, G)
        token_len == TokenLen(token_start, token_end, count)
        touched == {a \in cur..token_end : a < data_end}
        bad == \E a \in touched : MemAt(a, data, bytes) = GARB
    IN  IF cur >= data_end
        THEN [err |-> "none", n |-> 0, io |-> <<>>, cur |-> cur, bad |-> FALSE]
        ELSE IF cur = NULL
        THEN [err |-> "OOPS", n |-> 0, io |-> <<>>, cur |-> cur, bad |-> TRUE]
        ELSE IF token_len > 0 /\ fault
        THEN [err |-> "EFAULT", n |-> 0, io |-> <<>>,
              cur |-> FaultCursor(cur, token_end), bad |-> bad]
        ELSE [err |-> "none", n |-> token_len,
              io |-> [i \in 1..token_len |-> MemAt(token_start + i - 1, data, bytes)],
              cur |-> ReadCursor(token_start, token_end, token_len), bad |-> bad]

\* the ScannerFile that scanner_open builds
OpenFile(dev) ==
    [open |-> TRUE, current_token |-> NULL, separators |-> dev.separators]

scanner_open(h) ==
    /\ ~files[h].open
    /\ \/ /\ files' = [files EXCEPT ![h] = OpenFile(scanner_device)]
          /\ lastOp' = Ret("open", h, 0, "none", 0, <<>>, FALSE)
       \/ \* kmalloc fails, for the ScannerFile or for its separators
          /\ files' = files
          /\ lastOp' = Ret("open", h, 0, "ENOMEM", 0, <<>>, FALSE)
    /\ UNCHANGED <<scanner_device, kmem>>

\* a release that frees the data as well, as if the buffer belonged to the file
scanner_release_freeing(h) ==
    /\ files[h].open
    /\ files' = [files EXCEPT ![h] = ClosedFile]
    /\ lastOp' = Ret("release", h, 0, "none", 0, <<>>, FALSE)
    /\ scanner_device' = [scanner_device EXCEPT !.data = NULL]
    /\ kmem' = <<>>

scanner_release(h) ==
    /\ files[h].open
    /\ files' = [files EXCEPT ![h] = ClosedFile]
    /\ lastOp' = Ret("release", h, 0, "none", 0, <<>>, FALSE)
    /\ UNCHANGED <<scanner_device, kmem>>

\* scanner_read with the count arguments in counts
ReadWith(h, counts) ==
    /\ files[h].open
    /\ \/ \* strlen(NULL)
          /\ scanner_device.data = NULL
          /\ files' = files
          /\ lastOp' = Ret("read", h, 0, "OOPS", 0, <<>>, TRUE)
       \/ /\ scanner_device.data # NULL
          /\ \E count \in counts, fault \in BOOLEAN,
                data_end \in DataEnds(scanner_device.data, kmem) :
             \E G \in SUBSET Indeterminate(files[h].current_token, data_end,
                                           scanner_device.data, kmem) :
             \E r \in {ReadOutcome(scanner_device.data, data_end, kmem,
                                   files[h].current_token, files[h].separators,
                                   count, fault, G)} :
                /\ files' = [files EXCEPT ![h].current_token = r.cur]
                /\ lastOp' = Ret("read", h, count, r.err, r.n, r.io, r.bad)
    /\ UNCHANGED <<scanner_device, kmem>>

scanner_read(h) == ReadWith(h, Counts)

\* the device after a write that fails: the old data was freed first, and the
\* pointer is NULL on both error paths
FailedWriteDevice(dev) == [dev EXCEPT !.data = NULL]

FailedWriteMem(bytes) == <<>>

\* a write that forgets to move the writer's cursor
WriteCursor_stale(cur, data) == cur

\* scanner_file->current_token = scanner_device.data
WriteCursor(cur, data) == data

scanner_write(h) ==
    /\ files[h].open
    /\ \/ \* the old data is freed, then kmalloc(count + 1) fails, or
          \* copy_from_user leaves bytes uncopied and the new block is freed
          /\ \E err \in {"ENOMEM", "EFAULT"} :
                lastOp' = Ret("write", h, 0, err, 0, <<>>, FALSE)
          /\ scanner_device' = FailedWriteDevice(scanner_device)
          /\ kmem' = FailedWriteMem(kmem)
          /\ files' = files
       \/ \E buf \in Payloads, addr \in KmallocAddrs :
          /\ scanner_device' = [scanner_device EXCEPT !.data = addr]
          /\ kmem' = Append(buf, NUL)
          /\ files' = [files EXCEPT
                 ![h].current_token = WriteCursor(files[h].current_token, addr)]
          /\ lastOp' = Ret("write", h, 0, "none", Len(buf), buf, FALSE)

\* the user's separator strings and the addresses they are passed at; the byte user
\* memory holds at address a when such a string s starts at address at
\* (zero-filled behind its terminator)
SepStrings == {<<"a">>, <<"a", "SP">>}

UserAddrs == 0..1

UserByte(s, at, a) == IF a - at + 1 \in 1..Len(s) THEN s[a - at + 1] ELSE NUL

\* new_separators after copy_from_user(new_separators, arg, arg) and the terminator
NewSeparators(s, arg) ==
    [i \in 1..(arg + 1) |-> IF i = arg + 1 THEN NUL ELSE UserByte(s, arg, arg + i - 1)]

\* separators kept device-wide: every open file gets the new string
SetSeparators_all(fs, h, new) ==
    [g \in DOMAIN fs |-> IF fs[g].open THEN [fs[g] EXCEPT !.separators = new] ELSE fs[g]]

\* kfree(scanner_file->separators); scanner_file->separators = new_separators
SetSeparators(fs, h, new) == [fs EXCEPT ![h].separators = new]

\* the new block installed before the copy is known to have succeeded
KeepSeparators_installed(fs, h, new) == [fs EXCEPT ![h].separators = new]

\* the files after a failed SCANNER_SET_SEPARATORS: new_separators is freed
KeepSeparators(fs, h, new) == fs

scanner_ioctl(h) ==
    /\ files[h].open
    /\ \E s \in SepStrings, arg \in UserAddrs :
       \/ \* a command of another type or number
          /\ lastOp' = Ret("ioctl", h, arg, "ENOTTY", 0, s, FALSE)
          /\ files' = files
       \/ \* kmalloc(arg + 1) fails
          /\ lastOp' = Ret("ioctl", h, arg, "ENOMEM", 0, s, FALSE)
          /\ files' = files
       \/ \* copy_from_user leaves bytes uncopied
          /\ arg > 0
          /\ lastOp' = Ret("ioctl", h, arg, "EFAULT", 0, s, FALSE)
          /\ files' = KeepSeparators(files, h, NewSeparators(s, arg))
       \/ \* SCANNER_SET_SEPARATORS: arg is used as the length and as the user pointer
          /\ files' = SetSeparators(files, h, NewSeparators(s, arg))
          /\ lastOp' = Ret("ioctl", h, arg, "none", 0, s, FALSE)
    /\ UNCHANGED <<scanner_device, kmem>>

\* the system call returns: its caller has the result
syscall_return ==
    /\ lastOp # Idle
    /\ lastOp' = Idle
    /\ UNCHANGED <<scanner_device, kmem, files, wst, devs, got>>

NoWrite == [pc |-> "idle", buf |-> <<>>, old_data |-> NULL, old_bytes |-> <<>>]

NoDevice ==
    [open |-> FALSE, data_buffer |-> "NULL", bytes |-> <<>>, buffer_size |-> 0,
     buffer_position |-> 0, separators |-> <<>>, lock |-> FALSE]

\* scanner_init has run and nothing is open: data is NULL (static storage), the
\* device's separators are the default ones
Init ==
    /\ scanner_device = [separators |-> DefaultSeparators, data |-> NULL]
    /\ kmem = <<>>
    /\ files = [h \in Handles |-> ClosedFile]
    /\ wst = [h \in Handles |-> NoWrite]
    /\ devs = [h \in Handles |-> NoDevice]
    /\ lastOp = Idle
    /\ got = <<>>

---------------------------------------------------------------------------
(* Spec: the calls on /dev/scanner_device (NewScanner.c), one at a time *)

open_handle(h) ==
    lastOp = Idle /\ scanner_open(h) /\ UNCHANGED <<wst, devs, got>>

close_handle(h) ==
    lastOp = Idle /\ scanner_release(h) /\ UNCHANGED <<wst, devs, got>>

read_token(h) ==
    lastOp = Idle /\ scanner_read(h) /\ UNCHANGED <<wst, devs, got>>

write_buffer(h) ==
    lastOp = Idle /\ scanner_write(h) /\ UNCHANGED <<wst, devs, got>>

reconfigure_separators(h) ==
    lastOp = Idle /\ scanner_ioctl(h) /\ UNCHANGED <<wst, devs, got>>

Next ==
    \/ syscall_return
    \/ \E h \in Handles :
        \/ open_handle(h)
        \/ close_handle(h)
        \/ read_token(h)
        \/ write_buffer(h)
        \/ reconfigure_separators(h)

Spec == Init /\ [][Next]_vars

---------------------------------------------------------------------------
(* SpecSession: one handle writes and then reads to the end, as TestScanner.c's *)
(* main does; the other handle does everything but write.                      *)

SessionHandle == "H1"

\* counts that are at least the longest token
SessionCounts == {MaxLen, ReadBufSize - 1}

session_open(h) ==
    lastOp = Idle /\ scanner_open(h) /\ UNCHANGED <<wst, devs, got>>

session_release(h) ==
    /\ lastOp = Idle
    /\ scanner_release(h)
    /\ got' = IF h = SessionHandle THEN <<>> ELSE got
    /\ UNCHANGED <<wst, devs>>

\* the session's handle sets its separators before it starts to read
session_ioctl(h) ==
    /\ lastOp = Idle
    /\ h = SessionHandle =>
          \/ scanner_device.data = NULL
          \/ files[h].current_token = scanner_device.data
    /\ scanner_ioctl(h)
    /\ UNCHANGED <<wst, devs, got>>

session_write ==
    /\ lastOp = Idle
    /\ scanner_write(SessionHandle)
    /\ got' = <<>>
    /\ UNCHANGED <<wst, devs>>

session_read(h) ==
    /\ lastOp = Idle
    /\ ReadWith(h, SessionCounts)
    /\ got' = IF h = SessionHandle /\ lastOp'.err = "none" /\ lastOp'.n > 0
              THEN Append(got, lastOp'.io)
              ELSE got
    /\ UNCHANGED <<wst, devs>>

NextSession ==
    \/ syscall_return
    \/ session_write
    \/ \E h \in Handles :
        \/ session_open(h)
        \/ session_release(h)
        \/ session_ioctl(h)
        \/ session_read(h)

SpecSession == Init /\ [][NextSession]_vars

\* TestScanner.c: write(fd, "This is a test.", 15), then read until 0 is returned
TestPayload ==
    <<"T", "h", "i", "s", "SP", "i", "s", "SP", "a", "SP", "t", "e", "s", "t", ".">>

RECURSIVE ReadAll(_, _, _, _, _)
ReadAll(data, bytes, cur, seps, count) ==
    LET r == ReadOutcome(data, data + Strlen(bytes), bytes, cur, seps, count, FALSE, {})
    IN  IF r.err # "none" \/ r.n = 0 THEN <<>>
        ELSE <<r.io>> \o ReadAll(data, bytes, r.cur, seps, count)

TestScannerTokens ==
    ReadAll(1, Append(TestPayload, NUL), WriteCursor(NULL, 1), DefaultSeparators,
            ReadBufSize - 1)

\* Everything the reads from cur on consume, read after read until one returns
\* 0: the separators each read skips, then the token it returns
RECURSIVE Consumed(_, _, _, _, _)
Consumed(data, bytes, cur, seps, count) ==
    LET data_end == data + Strlen(bytes)
        r == ReadOutcome(data, data_end, bytes, cur, seps, count, FALSE, {})
        token_start == SkipSeparators(cur, data_end, data, bytes, seps, {})
        skipped == [i \in 1..(token_start - cur) |-> MemAt(cur + i - 1, data, bytes)]
    IN  IF r.err # "none" \/ cur >= data_end THEN <<>>
        ELSE IF r.n = 0 THEN skipped
        ELSE skipped \o r.io \o Consumed(data, bytes, r.cur, seps, count)

---------------------------------------------------------------------------
(* SpecConc: scanner_write statement by statement, with the reads of the other *)
(* handles in between.  NewScanner.c takes no lock, so every interleaving of   *)
(* the statements is a run of the driver.  One write is in progress at a time. *)

ConcPayloads == {b \in Payloads : Len(b) <= 1}

conc_open(h) ==
    lastOp = Idle /\ scanner_open(h) /\ UNCHANGED <<wst, devs, got>>

conc_read(h) ==
    /\ lastOp = Idle
    /\ wst[h].pc = "idle"
    /\ ReadWith(h, {ReadBufSize - 1})
    /\ UNCHANGED <<wst, devs, got>>

\* if (scanner_device.data) { kfree(scanner_device.data); scanner_device.data = NULL; }
write_free(h) ==
    /\ lastOp = Idle
    /\ files[h].open
    /\ \A g \in Handles : wst[g].pc = "idle"
    /\ \E buf \in ConcPayloads :
          wst' = [wst EXCEPT ![h] = [pc |-> "freed", buf |-> buf,
                                     old_data |-> scanner_device.data,
                                     old_bytes |-> kmem]]
    /\ scanner_device' = [scanner_device EXCEPT !.data = NULL]
    /\ kmem' = <<>>
    /\ UNCHANGED <<files, devs, lastOp, got>>

\* scanner_device.data = kmalloc(count + 1, GFP_KERNEL); return -ENOMEM on NULL
write_kmalloc(h) ==
    /\ lastOp = Idle
    /\ wst[h].pc = "freed"
    /\ \/ \E addr \in KmallocAddrs :
             /\ scanner_device' = [scanner_device EXCEPT !.data = addr]
             /\ kmem' = [i \in 1..(Len(wst[h].buf) + 1) |-> GARB]
             /\ wst' = [wst EXCEPT ![h].pc = "allocated"]
             /\ lastOp' = lastOp
       \/ /\ wst' = [wst EXCEPT ![h] = NoWrite]
          /\ lastOp' = Ret("write", h, 0, "ENOMEM", 0, <<>>, FALSE)
          /\ UNCHANGED <<scanner_device, kmem>>
    /\ UNCHANGED <<files, devs, got>>

\* copy_from_user(scanner_device.data, buf, count); on failure kfree, NULL, -EFAULT
write_copy(h) ==
    /\ lastOp = Idle
    /\ wst[h].pc = "allocated"
    /\ \/ /\ kmem' = Append(wst[h].buf, GARB)
          /\ wst' = [wst EXCEPT ![h].pc = "copied"]
          /\ UNCHANGED <<scanner_device, lastOp>>
       \/ /\ Len(wst[h].buf) > 0
          /\ scanner_device' = [scanner_device EXCEPT !.data = NULL]
          /\ kmem' = <<>>
          /\ wst' = [wst EXCEPT ![h] = NoWrite]
          /\ lastOp' = Ret("write", h, 0, "EFAULT", 0, <<>>, FALSE)
    /\ UNCHANGED <<files, devs, got>>

\* scanner_device.data[count] = '\0'
write_terminate(h) ==
    /\ lastOp = Idle
    /\ wst[h].pc = "copied"
    /\ kmem' = Append(wst[h].buf, NUL)
    /\ wst' = [wst EXCEPT ![h].pc = "terminated"]
    /\ UNCHANGED <<scanner_device, files, devs, lastOp, got>>

\* scanner_file->current_token = scanner_device.data; return count
write_return(h) ==
    /\ lastOp = Idle
    /\ wst[h].pc = "terminated"
    /\ files' = [files EXCEPT ![h].current_token =
                    WriteCursor(files[h].current_token, scanner_device.data)]
    /\ lastOp' = Ret("write", h, 0, "none", Len(wst[h].buf), wst[h].buf, FALSE)
    /\ wst' = [wst EXCEPT ![h] = NoWrite]
    /\ UNCHANGED <<scanner_device, kmem, devs, got>>

NextConc ==
    \/ syscall_return
    \/ \E h \in Handles :
        \/ conc_open(h)
        \/ conc_read(h)
        \/ write_free(h)
        \/ write_kmalloc(h)
        \/ write_copy(h)
        \/ write_terminate(h)
        \/ write_return(h)

SpecConc == Init /\ [][NextConc]_vars

---------------------------------------------------------------------------
(* SpecDev: Scanner.c, whose buffer, position and separators all belong to the *)
(* open file; the calls one at a time.                                         *)

\* char separators[10], zeroed, then strcpy(dev->separators, " ")
DevSeparators == <<"SP", NUL, NUL, NUL, NUL, NUL, NUL, NUL, NUL, NUL>>

\* the ScannerDevice that dev_open builds
OpenDevice ==
    [open |-> TRUE, data_buffer |-> "NULL", bytes |-> <<>>, buffer_size |-> 0,
     buffer_position |-> 0, separators |-> DevSeparators, lock |-> FALSE]

\* a loop that stops at every separator, also at one in front of the token
RECURSIVE DevReadLoop_break(_, _, _, _, _, _, _)
DevReadLoop_break(bytes, size, pos, seps, len, out, writable) ==
    IF pos < size /\ Len(out) < len
    THEN IF Strchr(seps, bytes[pos + 1])
         THEN [err |-> "none", io |-> out, pos |-> pos + 1]
         ELSE IF Len(out) >= writable
              THEN [err |-> "EFAULT", io |-> out, pos |-> pos]
              ELSE DevReadLoop_break(bytes, size, pos + 1, seps, len,
                                     Append(out, bytes[pos + 1]), writable)
    ELSE [err |-> "none", io |-> out, pos |-> pos]

\* the while loop of dev_read: out holds the bytes copied so far (bytes_read is
\* its length); copy_to_user of one byte fails once the user's buffer has taken
\* writable bytes
RECURSIVE DevReadLoop(_, _, _, _, _, _, _)
DevReadLoop(bytes, size, pos, seps, len, out, writable) ==
    IF pos < size /\ Len(out) < len
    THEN IF Strchr(seps, bytes[pos + 1])
         THEN IF Len(out) > 0
              THEN [err |-> "none", io |-> out, pos |-> pos + 1]
              ELSE DevReadLoop(bytes, size, pos + 1, seps, len, out, writable)
         ELSE IF Len(out) >= writable
              THEN [err |-> "EFAULT", io |-> out, pos |-> pos]
              ELSE DevReadLoop(bytes, size, pos + 1, seps, len,
                               Append(out, bytes[pos + 1]), writable)
    ELSE [err |-> "none", io |-> out, pos |-> pos]

\* a call that returns with the lock still taken
MutexUnlock_kept(dev) == dev

\* mutex_lock_interruptible(&dev->lock) returning 0, and mutex_unlock(&dev->lock)
MutexLock(dev) == [dev EXCEPT !.lock = TRUE]

MutexUnlock(dev) == [dev EXCEPT !.lock = FALSE]

\* dev_open does not initialise dev->lock (there is no mutex_init): in the
\* kmalloc'ed ScannerDevice the lock is free or looks taken
dev_open(h) ==
    /\ lastOp = Idle
    /\ ~devs[h].open
    /\ \/ /\ \E l \in BOOLEAN : devs' = [devs EXCEPT ![h] = [OpenDevice EXCEPT !.lock = l]]
          /\ lastOp' = Ret("open", h, 0, "none", 0, <<>>, FALSE)
       \/ /\ devs' = devs
          /\ lastOp' = Ret("open", h, 0, "ENOMEM", 0, <<>>, FALSE)
    /\ UNCHANGED <<scanner_device, kmem, files, wst, got>>

dev_release(h) ==
    /\ lastOp = Idle
    /\ devs[h].open
    /\ devs' = [devs EXCEPT ![h] = NoDevice]
    /\ lastOp' = Ret("release", h, 0, "none", 0, <<>>, FALSE)
    /\ UNCHANGED <<scanner_device, kmem, files, wst, got>>

\* a call that gives up the wait for the lock only after it has freed the buffer
Interrupted_freed(ds, h) ==
    [ds EXCEPT ![h].data_buffer = "NULL", ![h].bytes = <<>>,
               ![h].buffer_size = 0, ![h].buffer_position = 0]

\* if (mutex_lock_interruptible(&dev->lock)) return -ERESTARTSYS: the first
\* statement of dev_read and of dev_write; nothing has been touched yet
Interrupted(ds, h) == ds

dev_read(h) ==
    /\ lastOp = Idle
    /\ devs[h].open
    /\ \E len \in Counts :
       \/ \* mutex_lock_interruptible is interrupted
          /\ devs' = Interrupted(devs, h)
          /\ lastOp' = Ret("read", h, len, "ERESTARTSYS", 0, <<>>, FALSE)
       \/ \* end of data
          /\ ~devs[h].lock
          /\ devs[h].buffer_position >= devs[h].buffer_size \/ devs[h].data_buffer = "NULL"
          /\ devs' = [devs EXCEPT ![h] = MutexUnlock(MutexLock(devs[h]))]
          /\ lastOp' = Ret("read", h, len, "none", 0, <<>>, FALSE)
       \/ /\ ~devs[h].lock
          /\ devs[h].buffer_position < devs[h].buffer_size
          /\ devs[h].data_buffer # "NULL"
          /\ \E writable \in {0, 1, len} :
             \E r \in {DevReadLoop(devs[h].bytes, devs[h].buffer_size,
                                   devs[h].buffer_position, devs[h].separators,
                                   len, <<>>, writable)} :
                /\ devs' = [devs EXCEPT ![h] =
                               MutexUnlock([MutexLock(devs[h]) EXCEPT
                                               !.buffer_position = r.pos])]
                /\ lastOp' = Ret("read", h, len, r.err,
                                 IF r.err = "none" THEN Len(r.io) ELSE 0, r.io, FALSE)
    /\ UNCHANGED <<scanner_device, kmem, files, wst, got>>

\* the ScannerDevice after the old buffer, if any, was freed and the write failed
DevAfterFailedWrite(dev) ==
    IF dev.data_buffer # "NULL"
    THEN [dev EXCEPT !.data_buffer = "NULL", !.bytes = <<>>,
                     !.buffer_size = 0, !.buffer_position = 0]
    ELSE dev

dev_write(h) ==
    /\ lastOp = Idle
    /\ devs[h].open
    /\ \/ \* mutex_lock_interruptible is interrupted
          /\ devs' = Interrupted(devs, h)
          /\ lastOp' = Ret("write", h, 0, "ERESTARTSYS", 0, <<>>, FALSE)
       \/ \* kmalloc(len) fails, or copy_from_user leaves bytes uncopied
          /\ ~devs[h].lock
          /\ \E err \in {"ENOMEM", "EFAULT"} :
                lastOp' = Ret("write", h, 0, err, 0, <<>>, FALSE)
          /\ devs' = [devs EXCEPT ![h] =
                         MutexUnlock(DevAfterFailedWrite(MutexLock(devs[h])))]
       \/ \E buf \in Payloads :
          /\ ~devs[h].lock
          /\ devs' = [devs EXCEPT ![h] =
                         MutexUnlock([MutexLock(devs[h]) EXCEPT
                                         !.data_buffer = "kmalloc", !.bytes = buf,
                                         !.buffer_size = Len(buf),
                                         !.buffer_position = 0])]
          /\ lastOp' = Ret("write", h, 0, "none", Len(buf), buf, FALSE)
    /\ UNCHANGED <<scanner_device, kmem, files, wst, got>>

\* dev_ioctl has no statements, not even a return: the value handed back is
\* whatever the register holds
dev_ioctl(h) ==
    /\ lastOp = Idle
    /\ devs[h].open
    /\ \E err \in {"none", "indeterminate"} :
          lastOp' = Ret("ioctl", h, 0, err, 0, <<>>, FALSE)
    /\ UNCHANGED <<scanner_device, kmem, files, wst, devs, got>>

NextDev ==
    \/ syscall_return
    \/ \E h \in Handles :
        \/ dev_open(h)
        \/ dev_release(h)
        \/ dev_read(h)
        \/ dev_write(h)
        \/ dev_ioctl(h)

SpecDev == Init /\ [][NextDev]_vars

\* dev_read called until it returns 0: the bytes it has stored, one token behind
\* the other, and the position it ends at
RECURSIVE DevReadAll(_, _, _, _, _)
DevReadAll(bytes, size, pos, seps, len) ==
    LET r == DevReadLoop(bytes, size, pos, seps, len, <<>>, len)
    IN  IF pos >= size \/ r.io = <<>>
        THEN [out |-> <<>>, pos |-> IF pos >= size THEN pos ELSE r.pos]
        ELSE LET rest == DevReadAll(bytes, size, r.pos, seps, len)
             IN  [out |-> r.io \o rest.out, pos |-> rest.pos]

---------------------------------------------------------------------------
(* SpecReaders: the two readers side by side.  One handle of each driver holds  *)
(* the same buffer and the same separator string; every step is one read of    *)
(* scanner_read and one of dev_read with the same count, or one write of the   *)
(* same payload to both.  got collects what dev_read returns.                  *)

ReaderBytes == {"SP", "HT", "a"}

\* NUL-free buffers
ReaderBuffers == SeqsUpTo(ReaderBytes, MaxLen)

\* separator strings: NewScanner.c's default, Scanner.c's default, none, a letter
ReaderSeparators == {DefaultSeparators, <<"SP", NUL>>, <<NUL>>, <<"a", NUL>>}

\* both drivers after SessionHandle has opened them, holds the separator string
\* S in both and has written B to both
InitReaders ==
    \E B \in ReaderBuffers, S \in ReaderSeparators, addr \in KmallocAddrs :
       /\ scanner_device = [separators |-> DefaultSeparators, data |-> addr]
       /\ kmem = Append(B, NUL)
       /\ files = [h \in Handles |->
                     IF h = SessionHandle
                     THEN [open |-> TRUE, current_token |-> WriteCursor(NULL, addr),
                           separators |-> S]
                     ELSE ClosedFile]
       /\ wst = [h \in Handles |-> NoWrite]
       /\ devs = [h \in Handles |->
                    IF h = SessionHandle
                    THEN [OpenDevice EXCEPT !.data_buffer = "kmalloc", !.bytes = B,
                                            !.buffer_size = Len(B), !.separators = S]
                    ELSE NoDevice]
       /\ lastOp = Idle
       /\ got = <<>>

\* one read of each driver, count at least the longest token, the user's buffer
\* writable; a buffer of MaxLen bytes has ended well within MaxLen + 1 reads
readers_read ==
    /\ lastOp = Idle
    /\ Len(got) <= MaxLen
    /\ \E count \in SessionCounts :
       \E r \in {ReadOutcome(scanner_device.data, scanner_device.data + Strlen(kmem),
                             kmem, files[SessionHandle].current_token,
                             files[SessionHandle].separators, count, FALSE, {})},
          d \in {DevReadLoop(devs[SessionHandle].bytes, devs[SessionHandle].buffer_size,
                             devs[SessionHandle].buffer_position,
                             devs[SessionHandle].separators, count, <<>>, count)} :
          /\ files' = [files EXCEPT ![SessionHandle].current_token = r.cur]
          /\ devs' = [devs EXCEPT ![SessionHandle] =
                         MutexUnlock([MutexLock(devs[SessionHandle]) EXCEPT
                                         !.buffer_position = d.pos])]
          /\ lastOp' = Ret("read", SessionHandle, count, r.err, r.n, r.io, r.bad)
          /\ got' = Append(got, d.io)
    /\ UNCHANGED <<scanner_device, kmem, wst>>

\* one successful write of the same payload to each driver
readers_write ==
    /\ lastOp = Idle
    /\ \E buf \in ReaderBuffers, addr \in KmallocAddrs :
          /\ scanner_device' = [scanner_device EXCEPT !.data = addr]
          /\ kmem' = Append(buf, NUL)
          /\ files' = [files EXCEPT ![SessionHandle].current_token =
                          WriteCursor(files[SessionHandle].current_token, addr)]
          /\ devs' = [devs EXCEPT ![SessionHandle] =
                         MutexUnlock([MutexLock(devs[SessionHandle]) EXCEPT
                                         !.data_buffer = "kmalloc", !.bytes = buf,
                                         !.buffer_size = Len(buf),
                                         !.buffer_position = 0])]
          /\ lastOp' = Ret("write", SessionHandle, 0, "none", Len(buf), buf, FALSE)
    /\ got' = <<>>
    /\ UNCHANGED wst

NextReaders ==
    \/ syscall_return
    \/ readers_read
    \/ readers_write

SpecReaders == InitReaders /\ [][NextReaders]_vars

---------------------------------------------------------------------------
(* What the specification says, stated without the driver's loops *)

\* the members of a separator string
SepSet(seps) == {seps[i] : i \in 1..Strlen(seps)}

\* the payload held by a terminated block
Text(bytes) == SubSeq(bytes, 1, Len(bytes) - 1)

NulFree(B) == \A i \in 1..Len(B) : B[i] # NUL

Take(t, n) == SubSeq(t, 1, Min(n, Len(t)))

\* index of the first byte behind offset p that is no separator; Len(B) + 1 if none
TokStart(B, p, S) ==
    IF \E i \in (p + 1)..Len(B) : B[i] \notin S
    THEN CHOOSE i \in (p + 1)..Len(B) :
            B[i] \notin S /\ \A j \in (p + 1)..(i - 1) : B[j] \in S
    ELSE Len(B) + 1

\* index of the last byte of the maximal separator-free run that starts at index t
TokLast(B, t, S) ==
    CHOOSE j \in (t - 1)..Len(B) :
        /\ \A k \in t..j : B[k] \notin S
        /\ j = Len(B) \/ B[j + 1] \in S

\* the token a cursor at offset p is followed by; <<>> at the end of the stream
NextTok(B, p, S) == SubSeq(B, TokStart(B, p, S), TokLast(B, TokStart(B, p, S), S))

\* the cursor of handle h points into (or just behind the text of) the live block
InBlock(fs, dev, bytes, h) ==
    /\ dev.data # NULL
    /\ fs[h].current_token >= dev.data
    /\ fs[h].current_token <= dev.data + Len(bytes) - 1

\* the maximal separator-free runs of B, as index pairs
Runs(B, S) ==
    {r \in (1..Len(B)) \X (1..Len(B)) :
        /\ r[1] <= r[2]
        /\ \A k \in r[1]..r[2] : B[k] \notin S
        /\ r[1] = 1 \/ B[r[1] - 1] \in S
        /\ r[2] = Len(B) \/ B[r[2] + 1] \in S}

\* the tokens of B under S, left to right
TokensOf(B, S) ==
    [n \in 1..Cardinality(Runs(B, S)) |->
        LET r == CHOOSE r \in Runs(B, S) :
                    Cardinality({q \in Runs(B, S) : q[1] < r[1]}) = n - 1
        IN  SubSeq(B, r[1], r[2])]

---------------------------------------------------------------------------
(* Claims checked under SpecSession *)

\* C1: after a handle has written B and while nobody else writes, its reads (count
\* at least the longest token) return the maximal separator-free runs of B from
\* left to right and then end of stream; "This is a test." yields "This", "is",
\* "a", "test.".
C1_ReadsYieldTokens ==
    /\ TestScannerTokens =
          << <<"T", "h", "i", "s">>, <<"i", "s">>, <<"a">>, <<"t", "e", "s", "t", ".">> >>
    /\ (files[SessionHandle].open /\ scanner_device.data # NULL
           /\ files[SessionHandle].current_token # NULL /\ NulFree(Text(kmem))) =>
        LET toks == TokensOf(Text(kmem), SepSet(files[SessionHandle].separators))
        IN  /\ Len(got) <= Len(toks)
            /\ \A i \in 1..Len(got) : got[i] = toks[i]
            /\ (lastOp.op = "read" /\ lastOp.h = SessionHandle) =>
                  /\ ~lastOp.bad
                  /\ lastOp.err \in {"none", "EFAULT"}
                  /\ (lastOp.err = "none" /\ lastOp.n = 0) => got = toks
                  /\ (lastOp.err = "none" /\ lastOp.n > 0) => got[Len(got)] = lastOp.io
                  /\ lastOp.err = "EFAULT" => Len(got) < Len(toks)

C1_Witness ==
    /\ lastOp.op = "read" /\ lastOp.h = SessionHandle
    /\ lastOp.err = "none" /\ lastOp.n = 0
    /\ Text(kmem) = <<"a", "SP", "a">>
    /\ got = << <<"a">>, <<"a">> >>

\* the bytes of the tokens in ts, one token behind the other
RECURSIVE Flatten(_)
Flatten(ts) == IF ts = <<>> THEN <<>> ELSE Head(ts) \o Flatten(Tail(ts))

\* B without the members of S
Strip(B, S) == SelectSeq(B, LAMBDA c : c \notin S)

\* the per-file driver, which keeps no record of what it skips, returns the
\* non-separator bytes of every buffer in order, each once, and ends at the end
DevRoundTrip ==
    \A B \in {b \in Payloads : NulFree(b)}, len \in Counts :
       /\ DevReadAll(B, Len(B), 0, DevSeparators, len).out = Strip(B, SepSet(DevSeparators))
       /\ DevReadAll(B, Len(B), 0, DevSeparators, len).pos = Len(B)

\* C12: reading from position 0 to the end of the stream and putting the skipped
\* separator runs and the returned tokens one behind the other gives the buffer
\* back, byte for byte (NUL-free buffers, counts no shorter than the tokens).  At
\* every point of a session the bytes the cursor has passed are the tokens
\* returned so far plus separators, and end of stream is reported at the end of
\* the buffer.
C12_RoundTrip ==
    /\ DevRoundTrip
    /\ \A h \in Handles :
          (files[h].open /\ scanner_device.data # NULL /\ NulFree(Text(kmem))) =>
             Consumed(scanner_device.data, kmem, scanner_device.data,
                      files[h].separators, ReadBufSize - 1) = Text(kmem)
    /\ (files[SessionHandle].open /\ scanner_device.data # NULL
           /\ files[SessionHandle].current_token # NULL /\ NulFree(Text(kmem))) =>
          LET p == files[SessionHandle].current_token - scanner_device.data
              S == SepSet(files[SessionHandle].separators)
          IN  /\ p \in 0..Len(Text(kmem))
              /\ Flatten(got) = Strip(SubSeq(Text(kmem), 1, p), S)
              /\ (lastOp.op = "read" /\ lastOp.h = SessionHandle
                     /\ lastOp.err = "none" /\ lastOp.n = 0) => p = Len(Text(kmem))

C12_Witness ==
    /\ lastOp.op = "read" /\ lastOp.h = SessionHandle
    /\ lastOp.err = "none" /\ lastOp.n = 0
    /\ Text(kmem) = <<"SP", "a", "SP">>
    /\ got = << <<"a">> >>
    /\ files[SessionHandle].current_token = scanner_device.data + Len(Text(kmem))

\* C13: when no byte of a non-empty buffer is a separator of the handle (the
\* empty separator set included, as for "abc"), reading to the end of the stream
\* returns one token, and it is the whole buffer.
C13_SeparatorFreeBufferIsOneToken ==
    /\ ReadAll(1, <<"a", "b", "c", NUL>>, 1, <<NUL>>, ReadBufSize - 1)
          = << <<"a", "b", "c">> >>
    /\ (files[SessionHandle].open /\ scanner_device.data # NULL
           /\ files[SessionHandle].current_token # NULL /\ NulFree(Text(kmem))
           /\ Text(kmem) # <<>>
           /\ \A i \in 1..Len(Text(kmem)) :
                 Text(kmem)[i] \notin SepSet(files[SessionHandle].separators)) =>
          /\ got \in {<<>>, <<Text(kmem)>>}
          /\ ReadAll(scanner_device.data, kmem, scanner_device.data,
                     files[SessionHandle].separators, ReadBufSize - 1) = <<Text(kmem)>>
          /\ (lastOp.op = "read" /\ lastOp.h = SessionHandle /\ lastOp.err = "none") =>
                IF lastOp.n = 0 THEN got = <<Text(kmem)>> ELSE lastOp.io = Text(kmem)

C13_Witness ==
    /\ lastOp.op = "read" /\ lastOp.h = SessionHandle
    /\ lastOp.err = "none" /\ lastOp.n = 0
    /\ files[SessionHandle].separators = <<NUL>>
    /\ Text(kmem) = <<"a", "SP", "a">>
    /\ got = << <<"a", "SP", "a">> >>

---------------------------------------------------------------------------
(* Claims checked under SpecReaders *)

\* C23: on the same NUL-free buffer with the same separators, reads whose count
\* is at least the longest token return the same in both drivers, read for read:
\* the same tokens in the same order and then end of stream in both.
C23_ReadersAgree ==
    lastOp.op = "read" =>
       /\ lastOp.err = "none" /\ ~lastOp.bad
       /\ Len(got) > 0
       /\ lastOp.io = got[Len(got)]
       /\ lastOp.n = Len(got[Len(got)])

C23_Witness ==
    /\ lastOp.op = "read" /\ lastOp.n = 0
    /\ Text(kmem) = <<"HT", "a", "SP">>
    /\ files[SessionHandle].separators = <<"SP", NUL>>
    /\ got = << <<"HT", "a">>, <<>> >>

---------------------------------------------------------------------------
(* Claims checked under SpecConc *)

\* C3: a read that runs while another handle's write is in progress sees the
\* whole buffer as it was before that write or the whole buffer the write
\* installs, never a state in between (shown for readers that have a cursor).
C3_ReadSeesWholeBuffer ==
    [][ (lastOp'.op = "read" /\ files[lastOp'.h].current_token # NULL) =>
        \A w \in Handles :
           wst[w].pc # "idle" =>
              \/ /\ scanner_device.data = wst[w].old_data
                 /\ kmem = wst[w].old_bytes
              \/ /\ scanner_device.data # NULL
                 /\ kmem = Append(wst[w].buf, NUL) ]_vars

\* C18: every read and every replacement of the buffer runs inside one
\* mutual-exclusion region, so no read runs while a write is in progress.
C18_ReadsExcludeWrites ==
    [][ lastOp'.op = "read" => \A w \in Handles : wst[w].pc = "idle" ]_vars

---------------------------------------------------------------------------
(* Claims checked under SpecDev *)

\* C7: a read that fails because the user's buffer cannot take the bytes leaves
\* the caller's cursor where it was.
C7_FaultedReadKeepsCursor ==
    [][ (lastOp'.op = "read" /\ lastOp'.err = "EFAULT") =>
        /\ devs'[lastOp'.h].buffer_position = devs[lastOp'.h].buffer_position
        /\ files'[lastOp'.h].current_token = files[lastOp'.h].current_token ]_vars

\* C15: a read or a write whose wait for the lock is interrupted returns the
\* retryable error to its caller at once, and the buffer and the cursor are as
\* they were before the call.
C15_InterruptedCallChangesNothing ==
    [][ lastOp'.err = "ERESTARTSYS" =>
        /\ lastOp'.op \in {"read", "write"}
        /\ lastOp = Idle
        /\ lastOp'.n = 0 /\ lastOp'.io = <<>>
        /\ devs' = devs ]_vars

C15_Witness ==
    /\ lastOp.err = "ERESTARTSYS"
    /\ lastOp.op = "write"
    /\ devs[lastOp.h].bytes = <<"a", "SP", "a">>
    /\ devs[lastOp.h].buffer_position = 2

\* C22: every way out of dev_read and dev_write that has taken the lock gives it
\* back before it returns: a call that got past the lock finds it free and leaves
\* it free, and no call takes a free lock away, so the next read or write on
\* the handle can take it.
C22_ExitPathsUnlock ==
    [][ /\ (lastOp'.op \in {"read", "write"} /\ lastOp'.err # "ERESTARTSYS") =>
              ~devs[lastOp'.h].lock /\ ~devs'[lastOp'.h].lock
        /\ \A h \in Handles :
              (devs[h].open /\ ~devs[h].lock /\ devs'[h].open) => ~devs'[h].lock ]_vars

C22_Witness ==
    /\ lastOp.op = "read" /\ lastOp.err = "EFAULT"
    /\ devs[lastOp.h].bytes = <<"a", "a">>
    /\ devs[lastOp.h].buffer_position = 1
    /\ ~devs[lastOp.h].lock

---------------------------------------------------------------------------
(* Claims checked under Spec *)

\* C2: after another handle's write, a read by a handle whose cursor was left
\* in the released buffer never dereferences that buffer: it starts over at the
\* beginning of the new buffer and returns its first token, and the read alters
\* no other handle.
C2_StaleReadIsSafe ==
    [][ (lastOp'.op = "read" /\ scanner_device.data # NULL
            /\ files[lastOp'.h].current_token # NULL) =>
        /\ ~lastOp'.bad
        /\ \A g \in Handles \ {lastOp'.h} : files'[g] = files[g]
        /\ (~InBlock(files, scanner_device, kmem, lastOp'.h)
              /\ lastOp'.err = "none" /\ NulFree(Text(kmem))) =>
              lastOp'.io = Take(NextTok(Text(kmem), 0,
                                        SepSet(files[lastOp'.h].separators)),
                                lastOp'.count) ]_vars

\* C4: a read whose count is smaller than the next token returns the first count
\* bytes of the token and leaves the cursor right behind the bytes delivered.
C4_ShortReadKeepsRemainder ==
    [][ (lastOp'.op = "read" /\ lastOp'.err = "none" /\ ~lastOp'.bad
            /\ InBlock(files, scanner_device, kmem, lastOp'.h)
            /\ NulFree(Text(kmem))) =>
        LET h == lastOp'.h
            B == Text(kmem)
            p == files[h].current_token - scanner_device.data
            S == SepSet(files[h].separators)
        IN  lastOp'.count < Len(NextTok(B, p, S)) =>
              /\ lastOp'.io = Take(NextTok(B, p, S), lastOp'.count)
              /\ files'[h].current_token =
                    scanner_device.data + TokStart(B, p, S) - 1 + lastOp'.count ]_vars

\* C5: a successful write replaces the whole buffer by the payload, returns the
\* payload's length and puts the writer's cursor at the start of the new buffer,
\* whatever the cursor was; a read from there returns the buffer's first token.
C5_WriteReplacesAndResets ==
    [][ /\ (lastOp'.op = "write" /\ lastOp'.err = "none") =>
            /\ scanner_device'.data # NULL
            /\ kmem' = Append(lastOp'.io, NUL)
            /\ lastOp'.n = Len(lastOp'.io)
            /\ files'[lastOp'.h].current_token = scanner_device'.data
        /\ (lastOp'.op = "read" /\ lastOp'.err = "none"
               /\ scanner_device.data # NULL
               /\ files[lastOp'.h].current_token = scanner_device.data
               /\ NulFree(Text(kmem))) =>
            lastOp'.io = Take(NextTok(Text(kmem), 0,
                                      SepSet(files[lastOp'.h].separators)),
                              lastOp'.count)
      ]_vars

C5_Witness ==
    /\ lastOp.op = "write" /\ lastOp.err = "none"
    /\ lastOp.io = <<"SP", "a">>
    /\ files[lastOp.h].current_token = scanner_device.data
    /\ \E g \in Handles \ {lastOp.h} :
          files[g].open /\ files[g].current_token \notin {NULL, scanner_device.data}

\* C6: a write that fails leaves the buffer, and every handle, as they were.
C6_FailedWriteChangesNothing ==
    [][ (lastOp'.op = "write" /\ lastOp'.err # "none") =>
        /\ scanner_device' = scanner_device
        /\ kmem' = kmem
        /\ files' = files ]_vars

\* C8: an ioctl that fails leaves the caller's separators as they were.
C8_FailedIoctlKeepsSeparators ==
    [][ (lastOp'.op = "ioctl" /\ lastOp'.err # "none") =>
        files'[lastOp'.h].separators = files[lastOp'.h].separators ]_vars

C8_Witness ==
    /\ lastOp.op = "ioctl" /\ lastOp.err = "EFAULT"
    /\ files[lastOp.h].separators = <<"a", NUL>>

\* C9: an ioctl changes nothing but the caller's separators: not the other
\* handles, not the caller's cursor, not the buffer, not the device's default
\* separators, which a later open still copies.
C9_IoctlFrame ==
    [][ /\ lastOp'.op = "ioctl" =>
            /\ \A g \in Handles \ {lastOp'.h} : files'[g] = files[g]
            /\ files'[lastOp'.h].current_token = files[lastOp'.h].current_token
            /\ files'[lastOp'.h].open = files[lastOp'.h].open
            /\ kmem' = kmem
            /\ scanner_device' = scanner_device
        /\ (lastOp'.op = "open" /\ lastOp'.err = "none") =>
            files'[lastOp'.h].separators = DefaultSeparators ]_vars

C9_Witness ==
    /\ lastOp.op = "ioctl" /\ lastOp.err = "none"
    /\ files[lastOp.h].separators = <<"a", NUL>>
    /\ files[lastOp.h].current_token # NULL
    /\ \E g \in Handles \ {lastOp.h} :
          /\ files[g].open
          /\ files[g].separators = DefaultSeparators
          /\ files[g].current_token # NULL

\* C10: a handle just opened has the default separators and reads from the start
\* of the current buffer: its first read returns the buffer's first token, or
\* end of stream when the buffer is empty or was never written.
C10_FreshHandleReadsFromStart ==
    [][ /\ (lastOp'.op = "open" /\ lastOp'.err = "none") =>
            SepSet(files'[lastOp'.h].separators) = {"SP", "HT", "LF", "CR", "FF", "VT"}
        /\ (lastOp'.op = "read" /\ files[lastOp'.h].current_token = NULL) =>
            /\ lastOp'.err \in {"none", "EFAULT"}
            /\ (lastOp'.err = "none"
                  /\ (scanner_device.data = NULL \/ NulFree(Text(kmem)))) =>
                 lastOp'.io =
                    IF scanner_device.data = NULL THEN <<>>
                    ELSE Take(NextTok(Text(kmem), 0,
                                      SepSet(files[lastOp'.h].separators)),
                              lastOp'.count) ]_vars

\* C11: a release destroys the caller's cursor and separators and nothing else:
\* the buffer and every other handle are as before, so whatever another handle
\* reads next is what it would have read without the release.
C11_ReleaseFrame ==
    [][ lastOp'.op = "release" =>
        /\ ~files'[lastOp'.h].open
        /\ scanner_device' = scanner_device
        /\ kmem' = kmem
        /\ \A g \in Handles \ {lastOp'.h} :
              /\ files'[g] = files[g]
              /\ (files[g].open /\ InBlock(files, scanner_device, kmem, g)) =>
                    \A count \in Counts :
                       ReadOutcome(scanner_device'.data,
                                   scanner_device'.data + Strlen(kmem'), kmem',
                                   files'[g].current_token, files'[g].separators,
                                   count, FALSE, {})
                       = ReadOutcome(scanner_device.data,
                                     scanner_device.data + Strlen(kmem), kmem,
                                     files[g].current_token, files[g].separators,
                                     count, FALSE, {}) ]_vars

C11_Witness ==
    /\ lastOp.op = "release"
    /\ kmem = <<"a", "SP", "a", NUL>>
    /\ \E g \in Handles \ {lastOp.h} :
          /\ files[g].open
          /\ files[g].current_token = scanner_device.data + 1
          /\ files[g].separators = <<"a", NUL>>

\* C16: the buffer carries a generation that every successful write increments
\* by one and nothing else changes.  The generation is part of the driver's
\* state, so no successful write can leave the whole of that state as it was.
C16_WriteAdvancesGeneration ==
    [][ (lastOp'.op = "write" /\ lastOp'.err = "none") =>
        <<scanner_device', kmem', files'>> # <<scanner_device, kmem, files>> ]_vars

\* C17: the cursor of a handle is a position in the buffer it refers to, from 0
\* to the buffer's length.  A handle whose read or write has just returned
\* refers to the current buffer.
C17_CursorWithinBuffer ==
    (lastOp.op \in {"read", "write"} /\ lastOp.err = "none"
        /\ scanner_device.data # NULL) =>
       /\ files[lastOp.h].current_token >= scanner_device.data
       /\ files[lastOp.h].current_token <= scanner_device.data + Len(Text(kmem))

\* what dev_read returns for a call at position pos of buffer B
DevRead(B, pos, len) == DevReadLoop(B, Len(B), pos, DevSeparators, len, <<>>, len)

\* the per-file driver returns no bytes exactly when only separators are left
DevReadNeverEmpty ==
    \A B \in {b \in Payloads : NulFree(b)}, len \in Counts :
       \A pos \in 0..Len(B) :
          (DevRead(B, pos, len).io = <<>>) <=>
             \A i \in (pos + 1)..Len(B) : B[i] \in SepSet(DevSeparators)

\* C19: a read with a count of at least 1 returns no bytes exactly when no
\* non-separator byte lies at or behind the cursor; otherwise it returns a
\* non-empty run of non-separator bytes: separators in front of a token and at
\* the end of the buffer are skipped, never returned as an empty token.
C19_NoEmptyToken ==
    /\ DevReadNeverEmpty
    /\ [][ (lastOp'.op = "read" /\ lastOp'.err = "none"
              /\ InBlock(files, scanner_device, kmem, lastOp'.h)
              /\ NulFree(Text(kmem))) =>
           LET B == Text(kmem)
               p == files[lastOp'.h].current_token - scanner_device.data
               S == SepSet(files[lastOp'.h].separators)
           IN  /\ lastOp'.count >= 1
               /\ (lastOp'.n = 0) <=> (\A i \in (p + 1)..Len(B) : B[i] \in S)
               /\ Len(lastOp'.io) = lastOp'.n
               /\ \A i \in 1..Len(lastOp'.io) : lastOp'.io[i] \notin S ]_vars

C19_Witness ==
    /\ lastOp.op = "read" /\ lastOp.err = "none" /\ lastOp.n = 0
    /\ lastOp.count = 1
    /\ kmem = <<"a", "SP", "SP", NUL>>
    /\ files[lastOp.h].separators = DefaultSeparators
    /\ files[lastOp.h].current_token = scanner_device.data + 3

\* in the per-file driver a read that returns bytes moves the position forward,
\* never past the end, and one that returns none leaves a position from which
\* every read returns none
DevReadsEnd ==
    \A B \in {b \in Payloads : NulFree(b)}, len \in Counts :
       \A pos \in 0..Len(B) :
          LET r == DevRead(B, pos, len)
          IN  /\ r.pos <= Len(B)
              /\ r.io # <<>> => r.pos > pos
              /\ r.io = <<>> => \A l \in Counts : DevRead(B, r.pos, l).io = <<>>

\* C20: while nobody writes, a handle that keeps reading comes to the end of the
\* stream after finitely many reads: every read that returns a token moves the
\* cursor strictly forward and never past the end of the buffer; and once a read
\* has returned end of stream, every further read of the handle does.
C20_ReadsReachEndOfStream ==
    /\ DevReadsEnd
    /\ [][ (lastOp'.op = "read" /\ lastOp'.err = "none"
              /\ InBlock(files, scanner_device, kmem, lastOp'.h)
              /\ NulFree(Text(kmem))) =>
           LET h == lastOp'.h
               data_end == scanner_device.data + Len(Text(kmem))
           IN  /\ files'[h].current_token <= data_end
               /\ lastOp'.n > 0 => files'[h].current_token > files[h].current_token
               /\ lastOp'.n = 0 =>
                     \A count \in Counts, fault \in BOOLEAN :
                        LET r == ReadOutcome(scanner_device'.data, data_end, kmem',
                                             files'[h].current_token,
                                             files'[h].separators, count, fault, {})
                        IN  r.err = "none" /\ r.n = 0
                               /\ r.cur = files'[h].current_token ]_vars

C20_Witness ==
    /\ lastOp.op = "read" /\ lastOp.err = "none" /\ lastOp.n = 0
    /\ lastOp.count = ReadBufSize - 1
    /\ kmem = <<"SP", "a", "a", NUL>>
    /\ files[lastOp.h].current_token = scanner_device.data + 3

\* C21: after a successful SCANNER_SET_SEPARATORS the caller's separator set is
\* the set of the bytes of the string it passed, and it is that set which
\* delimits the tokens of its reads from then on (the string passed by a pointer
\* that is not NULL).
C21_SeparatorsAreDelivered ==
    [][ (lastOp'.op = "ioctl" /\ lastOp'.err = "none" /\ lastOp'.count # NULL) =>
        SepSet(files'[lastOp'.h].separators)
           = {lastOp'.io[i] : i \in 1..Len(lastOp'.io)} ]_vars

====
